---- MODULE Spec2Model ----
(***************************************************************************)
(* The PayFlow processor-priority contract (contracts/processor_priority.py)*)
(* as a state machine over the application's global state.                 *)
(*                                                                         *)
(* Byte strings are sequences of byte values, so that keys are derived by  *)
(* real concatenation.  A PyTeal expression is not a value but a piece of  *)
(* code that is emitted, and evaluated, at each place it is used: every    *)
(* expression below is therefore an operator of the global state at the    *)
(* moment of its evaluation.  The AVM's uint64 arithmetic fails on         *)
(* overflow; every value of the model stays below 2^31, so no operation of *)
(* the model overflows.  A Seq of statements is a nesting of operators,    *)
(* one per statement, each applied to the state the one before it left.    *)
(***************************************************************************)
EXTENDS Integers, Sequences, FiniteSets, TLC

VARIABLES
    created,        \* the application exists on the ledger
    global_schema,  \* the StateSchema declared by the creation transaction
    global_state,   \* the application's global state: key -> TealValue
    now,            \* Global.latest_timestamp()
    opted_in,       \* the calling account has opted in to the application
    accepted_updates, \* history: accepted update_performance runs per index
    pre,            \* history: global_state before the last transaction
    last,           \* history: the last transaction and its outcome
    waiting,        \* a run of FundedContractDeployer.wait_for_confirmation
    funding         \* a run of deploy_with_new_account.deploy_contract

\* The variables of the ledger.
ledgerVars == <<created, global_schema, global_state, now, opted_in,
                accepted_updates, pre, last>>

vars == <<created, global_schema, global_state, now, opted_in,
          accepted_updates, pre, last, waiting, funding>>

----------------------------------------------------------------------------
(* Byte-string literals of the source.                                     *)

\* Bytes("processor_count")
B_processor_count == <<112, 114, 111, 99, 101, 115, 115, 111, 114, 95, 99, 111, 117, 110, 116>>
\* Bytes("processor_")
B_processor == <<112, 114, 111, 99, 101, 115, 115, 111, 114, 95>>
\* Bytes("_name")
B_name == <<95, 110, 97, 109, 101>>
\* Bytes("_enabled")
B_enabled == <<95, 101, 110, 97, 98, 108, 101, 100>>
\* Bytes("_total_transactions")
B_total_transactions == <<95, 116, 111, 116, 97, 108, 95, 116, 114, 97, 110, 115, 97, 99, 116, 105, 111, 110, 115>>
\* Bytes("_successful_transactions")
B_successful_transactions == <<95, 115, 117, 99, 99, 101, 115, 115, 102, 117, 108, 95, 116, 114, 97, 110, 115, 97, 99, 116, 105, 111, 110, 115>>
\* Bytes("_total_amount")
B_total_amount == <<95, 116, 111, 116, 97, 108, 95, 97, 109, 111, 117, 110, 116>>
\* Bytes("_avg_processing_time")
B_avg_processing_time == <<95, 97, 118, 103, 95, 112, 114, 111, 99, 101, 115, 115, 105, 110, 103, 95, 116, 105, 109, 101>>
\* Bytes("_first_activated")
B_first_activated == <<95, 102, 105, 114, 115, 116, 95, 97, 99, 116, 105, 118, 97, 116, 101, 100>>
\* Bytes("_monthly_transactions")
B_monthly_transactions == <<95, 109, 111, 110, 116, 104, 108, 121, 95, 116, 114, 97, 110, 115, 97, 99, 116, 105, 111, 110, 115>>
\* Bytes("_monthly_amount")
B_monthly_amount == <<95, 109, 111, 110, 116, 104, 108, 121, 95, 97, 109, 111, 117, 110, 116>>
\* Bytes("_last_updated")
B_last_updated == <<95, 108, 97, 115, 116, 95, 117, 112, 100, 97, 116, 101, 100>>
\* Bytes("_calculated_priority")
B_calculated_priority == <<95, 99, 97, 108, 99, 117, 108, 97, 116, 101, 100, 95, 112, 114, 105, 111, 114, 105, 116, 121>>
\* Bytes("Stripe")
B_Stripe == <<83, 116, 114, 105, 112, 101>>
\* Bytes("PayPal")
B_PayPal == <<80, 97, 121, 80, 97, 108>>
\* Bytes("Square")
B_Square == <<83, 113, 117, 97, 114, 101>>
\* Bytes("update_performance")
B_update_performance == <<117, 112, 100, 97, 116, 101, 95, 112, 101, 114, 102, 111, 114, 109, 97, 110, 99, 101>>
\* Bytes("recalculate_priorities")
B_recalculate_priorities == <<114, 101, 99, 97, 108, 99, 117, 108, 97, 116, 101, 95, 112, 114, 105, 111, 114, 105, 116, 105, 101, 115>>
\* "get_processor_metrics", a call the module docstring lists and the
\* program has no branch for
B_get_processor_metrics == <<103, 101, 116, 95, 112, 114, 111, 99, 101, 115, 115, 111, 114, 95, 109, 101, 116, 114, 105, 99, 115>>
\* Bytes("toggle")
B_toggle == <<116, 111, 103, 103, 108, 101>>

----------------------------------------------------------------------------
(* AVM primitives the program uses.                                        *)

\* Itob: the 8-byte big-endian encoding of a uint64 (written out for values
\* below 2^32, whose four high bytes are zero).
Itob(n) ==
    <<0, 0, 0, 0, (n \div 16777216) % 256, (n \div 65536) % 256,
      (n \div 256) % 256, n % 256>>

\* Btoi: the big-endian value of a byte string of at most 8 bytes, here
\* of the string padded with zero bytes on the left to 8 bytes.
BigEndian8(p) ==
    ((((((p[1] * 256 + p[2]) * 256 + p[3]) * 256 + p[4]) * 256 + p[5]) * 256
        + p[6]) * 256 + p[7]) * 256 + p[8]

Btoi(b) ==
    BigEndian8([k \in 1..8 |-> IF k <= 8 - Len(b) THEN 0 ELSE b[k - (8 - Len(b))]])

Concat(a, b, c) == a \o b \o c

\* Div: uint64 floor division (callers never pass a zero divisor).
Div(a, b) == a \div b

\* A value of the global state, as the AVM stores it and algod reports it:
\* type 1 is a byte string, type 2 a uint64.
TealBytes(b) == [type |-> 1, bytes |-> b, uint |-> 0]
TealUint(n) == [type |-> 2, bytes |-> <<>>, uint |-> n]

\* App.globalPut(key, value)
globalPut(gs, key, value) ==
    IF key \in DOMAIN gs
    THEN [gs EXCEPT ![key] = value]
    ELSE [k \in DOMAIN gs \cup {key} |-> IF k = key THEN value ELSE gs[k]]

\* App.globalGet(key): the stored value, uint64 0 when the key is absent.
globalGet(gs, key) ==
    IF key \in DOMAIN gs THEN gs[key] ELSE TealUint(0)

\* App.globalGet(key) used as a uint64.
globalGetUint(gs, key) == globalGet(gs, key).uint

\* The empty global state of an application that does not exist (yet).
EmptyState == [k \in {} |-> TealUint(0)]

----------------------------------------------------------------------------
(* Global state keys.                                                      *)

PROCESSOR_COUNT == B_processor_count

processor_name_key(index) == Concat(B_processor, Itob(index), B_name)
processor_enabled_key(index) == Concat(B_processor, Itob(index), B_enabled)
processor_total_transactions_key(index) ==
    Concat(B_processor, Itob(index), B_total_transactions)
processor_successful_transactions_key(index) ==
    Concat(B_processor, Itob(index), B_successful_transactions)
processor_total_amount_key(index) ==
    Concat(B_processor, Itob(index), B_total_amount)
processor_avg_processing_time_key(index) ==
    Concat(B_processor, Itob(index), B_avg_processing_time)
processor_first_activated_key(index) ==
    Concat(B_processor, Itob(index), B_first_activated)
processor_monthly_transactions_key(index) ==
    Concat(B_processor, Itob(index), B_monthly_transactions)
\* Mutant: the key of the monthly amount has the suffix of the total amount.
processor_monthly_amount_key_copied(index) ==
    Concat(B_processor, Itob(index), B_total_amount)

processor_monthly_amount_key(index) ==
    Concat(B_processor, Itob(index), B_monthly_amount)
processor_last_updated_key(index) ==
    Concat(B_processor, Itob(index), B_last_updated)
processor_calculated_priority_key(index) ==
    Concat(B_processor, Itob(index), B_calculated_priority)

----------------------------------------------------------------------------
(* initialize_processors: the writes of the creation call, in order.       *)

\* A run of App.globalPut statements: writes is their <<key, value>> pairs,
\* in order.
RECURSIVE globalPutAll(_, _)
globalPutAll(gs, writes) ==
    IF writes = <<>> THEN gs
    ELSE globalPutAll(globalPut(gs, Head(writes)[1], Head(writes)[2]), Tail(writes))

\* The eleven writes for one processor (source lines 85-95, 98-108, 111-121).
\* Mutant: every processor starts with the priority 1.
InitProcessorFirst(gs, index, name, avg_time, priority, current_time) ==
    globalPutAll(gs,
        << <<processor_name_key(index), TealBytes(name)>>,
           <<processor_enabled_key(index), TealUint(1)>>,
           <<processor_total_transactions_key(index), TealUint(0)>>,
           <<processor_successful_transactions_key(index), TealUint(0)>>,
           <<processor_total_amount_key(index), TealUint(0)>>,
           <<processor_avg_processing_time_key(index), TealUint(avg_time)>>,
           <<processor_first_activated_key(index), TealUint(current_time)>>,
           <<processor_monthly_transactions_key(index), TealUint(0)>>,
           <<processor_monthly_amount_key(index), TealUint(0)>>,
           <<processor_last_updated_key(index), TealUint(current_time)>>,
           <<processor_calculated_priority_key(index), TealUint(1)>> >>)

InitProcessor(gs, index, name, avg_time, priority, current_time) ==
    globalPutAll(gs,
        << <<processor_name_key(index), TealBytes(name)>>,
           <<processor_enabled_key(index), TealUint(1)>>,
           <<processor_total_transactions_key(index), TealUint(0)>>,
           <<processor_successful_transactions_key(index), TealUint(0)>>,
           <<processor_total_amount_key(index), TealUint(0)>>,
           <<processor_avg_processing_time_key(index), TealUint(avg_time)>>,
           <<processor_first_activated_key(index), TealUint(current_time)>>,
           <<processor_monthly_transactions_key(index), TealUint(0)>>,
           <<processor_monthly_amount_key(index), TealUint(0)>>,
           <<processor_last_updated_key(index), TealUint(current_time)>>,
           <<processor_calculated_priority_key(index), TealUint(priority)>> >>)

initialize_processors(gs, current_time) ==
    InitProcessor(
        InitProcessor(
            InitProcessor(globalPut(gs, PROCESSOR_COUNT, TealUint(3)),
                          1, B_Stripe, 150, 1, current_time),
            2, B_PayPal, 200, 2, current_time),
        3, B_Square, 180, 3, current_time)

----------------------------------------------------------------------------
(* Transactions.  application_args[k] of the source is application_args    *)
(* [k + 1] here (sequences start at 1).                                    *)

\* The id of the application once created (Txn.application_id() is 0 in
\* the creation call).
AppId == 1

AppCall(on_completion, args) ==
    [application_id |-> AppId, on_completion |-> on_completion,
     application_args |-> args]

\* The creation call of the deployment scripts: OnComplete.NoOp, no arguments.
CreateTxn ==
    [application_id |-> 0, on_completion |-> "NoOp", application_args |-> <<>>]

\* Txn.application_args[k] can be read, and Btoi applied to it: the AVM
\* fails on an absent argument and on Btoi of more than 8 bytes.
ArgDecodable(txn, k) ==
    /\ Len(txn.application_args) > k
    /\ Len(txn.application_args[k + 1]) <= 8

\* The result of running a piece of the program: ok is FALSE when the AVM
\* failed (an Assert, an absent argument), and then gs is discarded.
Ran(gs) == [ok |-> TRUE, gs |-> gs]
Failed(gs) == [ok |-> FALSE, gs |-> gs]

----------------------------------------------------------------------------
(* update_performance_metrics                                              *)

\* Btoi(Txn.application_args[1]), in update_performance_metrics and in
\* toggle_processor.
processor_index(txn) == Btoi(txn.application_args[2])
amount_cents(txn) == Btoi(txn.application_args[3])
was_successful(txn) == Btoi(txn.application_args[4])
processing_time_ms(txn) == Btoi(txn.application_args[5])

\* "Get current metrics": each is a read of the global state at the place
\* the expression is used.
current_total_txns(gs, txn) ==
    globalGetUint(gs, processor_total_transactions_key(processor_index(txn)))
current_successful_txns(gs, txn) ==
    globalGetUint(gs, processor_successful_transactions_key(processor_index(txn)))
current_total_amount(gs, txn) ==
    globalGetUint(gs, processor_total_amount_key(processor_index(txn)))
current_avg_time(gs, txn) ==
    globalGetUint(gs, processor_avg_processing_time_key(processor_index(txn)))
current_monthly_txns(gs, txn) ==
    globalGetUint(gs, processor_monthly_transactions_key(processor_index(txn)))
current_monthly_amount(gs, txn) ==
    globalGetUint(gs, processor_monthly_amount_key(processor_index(txn)))

\* "Calculate new averages"
new_total_txns(gs, txn) == current_total_txns(gs, txn) + 1

\* Mutant: every transaction counts as successful.
new_successful_txns_any(gs, txn) == current_successful_txns(gs, txn) + 1

new_successful_txns(gs, txn) ==
    IF was_successful(txn) = 1
    THEN current_successful_txns(gs, txn) + 1
    ELSE current_successful_txns(gs, txn)

new_total_amount(gs, txn) == current_total_amount(gs, txn) + amount_cents(txn)

new_avg_time(gs, txn) ==
    Div(current_avg_time(gs, txn) * current_total_txns(gs, txn)
            + processing_time_ms(txn),
        new_total_txns(gs, txn))

new_monthly_txns(gs, txn) == current_monthly_txns(gs, txn) + 1

\* Mutant: the monthly amount is that of the last transaction.
new_monthly_amount_last(gs, txn) == amount_cents(txn)

new_monthly_amount(gs, txn) == current_monthly_amount(gs, txn) + amount_cents(txn)

\* The five Asserts of the subroutine; reading an argument fails first when
\* it is absent.  amount_cents >= 0 and processing_time_ms >= 0 hold of
\* every uint64.
UpdateAsserts(gs, txn) ==
    /\ \A k \in 1..4 : ArgDecodable(txn, k)
    /\ processor_index(txn) >= 1
    /\ processor_index(txn) <= globalGetUint(gs, PROCESSOR_COUNT)
    /\ amount_cents(txn) >= 0
    /\ processing_time_ms(txn) >= 0
    /\ (was_successful(txn) = 0 \/ was_successful(txn) = 1)

\* The seven writes of the Seq, one operator each; the expression a
\* statement writes is evaluated on the state the statements before it left.
\* Mutant: the new total is written for the first processor.
PutTotalTxnsFirstProcessor(gs, txn) ==
    globalPut(gs, processor_total_transactions_key(1),
              TealUint(new_total_txns(gs, txn)))

\* Mutant: the new total is written under the key of the monthly count.
PutTotalTxnsToMonthlyKey(gs, txn) ==
    globalPut(gs, processor_monthly_transactions_key(processor_index(txn)),
              TealUint(new_total_txns(gs, txn)))

PutTotalTxns(gs, txn) ==
    globalPut(gs, processor_total_transactions_key(processor_index(txn)),
              TealUint(new_total_txns(gs, txn)))
PutSuccessfulTxns(gs, txn) ==
    globalPut(gs, processor_successful_transactions_key(processor_index(txn)),
              TealUint(new_successful_txns(gs, txn)))
PutTotalAmount(gs, txn) ==
    globalPut(gs, processor_total_amount_key(processor_index(txn)),
              TealUint(new_total_amount(gs, txn)))
PutAvgTime(gs, txn) ==
    globalPut(gs, processor_avg_processing_time_key(processor_index(txn)),
              TealUint(new_avg_time(gs, txn)))
PutMonthlyTxns(gs, txn) ==
    globalPut(gs, processor_monthly_transactions_key(processor_index(txn)),
              TealUint(new_monthly_txns(gs, txn)))
PutMonthlyAmount(gs, txn) ==
    globalPut(gs, processor_monthly_amount_key(processor_index(txn)),
              TealUint(new_monthly_amount(gs, txn)))
\* Mutant: an update activates the processor anew.
PutLastUpdatedReactivating(gs, txn, current_time) ==
    globalPut(globalPut(gs, processor_last_updated_key(processor_index(txn)),
                        TealUint(current_time)),
              processor_first_activated_key(processor_index(txn)),
              TealUint(current_time))

\* Mutant: the time is written under the key of first_activated.
PutLastUpdatedToFirstActivated(gs, txn, current_time) ==
    globalPut(gs, processor_first_activated_key(processor_index(txn)),
              TealUint(current_time))

PutLastUpdated(gs, txn, current_time) ==
    globalPut(gs, processor_last_updated_key(processor_index(txn)),
              TealUint(current_time))

UpdateWrites(gs, txn, current_time) ==
    PutLastUpdated(
        PutMonthlyAmount(
            PutMonthlyTxns(
                PutAvgTime(
                    PutTotalAmount(
                        PutSuccessfulTxns(PutTotalTxns(gs, txn), txn),
                        txn),
                    txn),
                txn),
            txn),
        txn, current_time)

update_performance_metrics(gs, txn, current_time) ==
    IF UpdateAsserts(gs, txn)
    THEN Ran(UpdateWrites(gs, txn, current_time))
    ELSE Failed(gs)

----------------------------------------------------------------------------
(* calculate_processor_score                                               *)

success_rate(gs, index) ==
    LET total_txns == globalGetUint(gs, processor_total_transactions_key(index))
        successful_txns ==
            globalGetUint(gs, processor_successful_transactions_key(index))
    IN  IF total_txns > 0 THEN Div(successful_txns * 10000, total_txns) ELSE 9500

tenure_days(gs, index, current_time) ==
    LET first_activated == globalGetUint(gs, processor_first_activated_key(index))
    IN  IF current_time > first_activated
        THEN Div(current_time - first_activated, 86400)
        ELSE 0

\* Mutant: the tenure is not capped.
tenure_score_uncapped(gs, index, current_time) ==
    tenure_days(gs, index, current_time)

tenure_score(gs, index, current_time) ==
    IF tenure_days(gs, index, current_time) > 365
    THEN 365
    ELSE tenure_days(gs, index, current_time)

\* Mutant: the volume score grows with the priority the processor holds.
volume_score_ranked(gs, index) ==
    LET monthly_txns == globalGetUint(gs, processor_monthly_transactions_key(index))
    IN  (IF monthly_txns > 1000 THEN 1000 ELSE monthly_txns)
            + 4 * globalGetUint(gs, processor_calculated_priority_key(index))

volume_score(gs, index) ==
    LET monthly_txns == globalGetUint(gs, processor_monthly_transactions_key(index))
    IN  IF monthly_txns > 1000 THEN 1000 ELSE monthly_txns

\* Mutant: the bracket bounds are inclusive.
speed_score_inclusive(gs, index) ==
    LET avg_time == globalGetUint(gs, processor_avg_processing_time_key(index))
    IN  IF avg_time <= 50 THEN 1000
        ELSE IF avg_time <= 100 THEN 800
        ELSE IF avg_time <= 200 THEN 600
        ELSE IF avg_time <= 500 THEN 400
        ELSE 200

speed_score(gs, index) ==
    LET avg_time == globalGetUint(gs, processor_avg_processing_time_key(index))
    IN  IF avg_time < 50 THEN 1000
        ELSE IF avg_time < 100 THEN 800
        ELSE IF avg_time < 200 THEN 600
        ELSE IF avg_time < 500 THEN 400
        ELSE 200

calculate_processor_score(gs, index, current_time) ==
    (success_rate(gs, index) * 40
        + volume_score(gs, index) * 25
        + speed_score(gs, index) * 20
        + tenure_score(gs, index, current_time) * 15) \div 100

----------------------------------------------------------------------------
(* recalculate_all_priorities                                              *)

\* Mutant: the priority is the number of higher scores, counted from 0.
AssignedPriorityFromZero(own, first, second) ==
    (IF own < first THEN 1 ELSE 0) + (IF own < second THEN 1 ELSE 0)

\* One If / ElseIf / Else of the Seq: the priority written for a processor
\* whose score is own, compared with the scores first and second.
\* Mutant: the comparisons are strict.
AssignedPriorityStrict(own, first, second) ==
    IF own > first /\ own > second THEN 1
    ELSE IF own > first /\ own <= second THEN 2
    ELSE 3

\* Mutant: the comparisons are inverted.
AssignedPriorityInverted(own, first, second) ==
    IF own <= first /\ own <= second THEN 1
    ELSE IF own <= first /\ own > second THEN 2
    ELSE 3

AssignedPriority(own, first, second) ==
    IF own >= first /\ own >= second THEN 1
    ELSE IF own >= first /\ own < second THEN 2
    ELSE 3

\* score1, score2, score3 are subroutine calls, made again at every use:
\* each of the three statements reads the scores from the state the
\* statements before it have left.
score1(gs, current_time) == calculate_processor_score(gs, 1, current_time)
score2(gs, current_time) == calculate_processor_score(gs, 2, current_time)
score3(gs, current_time) == calculate_processor_score(gs, 3, current_time)

\* "Processor 1 priority assignment"
AssignPriority1(gs, current_time) ==
    globalPut(gs, processor_calculated_priority_key(1),
        TealUint(AssignedPriority(score1(gs, current_time),
                                  score2(gs, current_time),
                                  score3(gs, current_time))))

\* "Processor 2 priority assignment"
\* Mutant: processor 2 is compared with processor 3 first.
AssignPriority2SecondFirst(gs, current_time) ==
    globalPut(gs, processor_calculated_priority_key(2),
        TealUint(AssignedPriority(score2(gs, current_time),
                                  score3(gs, current_time),
                                  score1(gs, current_time))))

AssignPriority2(gs, current_time) ==
    globalPut(gs, processor_calculated_priority_key(2),
        TealUint(AssignedPriority(score2(gs, current_time),
                                  score1(gs, current_time),
                                  score3(gs, current_time))))

\* Mutant: processor 3 is compared with processor 2 first.
AssignPriority3SecondFirst(gs, current_time) ==
    globalPut(gs, processor_calculated_priority_key(3),
        TealUint(AssignedPriority(score3(gs, current_time),
                                  score2(gs, current_time),
                                  score1(gs, current_time))))

\* "Processor 3 priority assignment"
AssignPriority3(gs, current_time) ==
    globalPut(gs, processor_calculated_priority_key(3),
        TealUint(AssignedPriority(score3(gs, current_time),
                                  score1(gs, current_time),
                                  score2(gs, current_time))))

recalculate_all_priorities(gs, current_time) ==
    Ran(AssignPriority3(
            AssignPriority2(AssignPriority1(gs, current_time), current_time),
            current_time))

----------------------------------------------------------------------------
(* toggle_processor                                                        *)

enabled(txn) == Btoi(txn.application_args[3])

\* Mutant: the value of enabled is not checked.
ToggleAssertsIndexOnly(gs, txn) ==
    /\ \A k \in 1..2 : ArgDecodable(txn, k)
    /\ processor_index(txn) >= 1
    /\ processor_index(txn) <= globalGetUint(gs, PROCESSOR_COUNT)

ToggleAsserts(gs, txn) ==
    /\ \A k \in 1..2 : ArgDecodable(txn, k)
    /\ processor_index(txn) >= 1
    /\ processor_index(txn) <= globalGetUint(gs, PROCESSOR_COUNT)
    /\ (enabled(txn) = 0 \/ enabled(txn) = 1)

toggle_processor(gs, txn) ==
    IF ToggleAsserts(gs, txn)
    THEN Ran(globalPut(gs, processor_enabled_key(processor_index(txn)),
                       TealUint(enabled(txn))))
    ELSE Failed(gs)

----------------------------------------------------------------------------
(* approval_program: the Cond of the main program.                         *)

\* The literal of the expiry check.
ExpiryEpoch == 2000000000

\* What a run of the approval program yields: Approve() or not, the global
\* state it leaves, and the branch of the Cond that ran.
Outcome(approved, gs, branch) ==
    [approved |-> approved, gs |-> gs, branch |-> branch]

\* Mutant: the condition without the expiry check.
BranchConditionUnexpired(txn, selector, current_time) ==
    /\ txn.on_completion = "NoOp"
    /\ txn.application_args[1] = selector

\* The condition of a mutating branch.  And() evaluates all its arguments.
BranchCondition(txn, selector, current_time) ==
    /\ txn.on_completion = "NoOp"
    /\ txn.application_args[1] = selector
    /\ current_time < ExpiryEpoch

\* Seq([initialize_processors(), Approve()])
CreateBranch(gs, txn, current_time) ==
    Outcome(TRUE, initialize_processors(gs, current_time), "create")

\* Mutant: the recalculation is left out.
ThenNothing(r, current_time) == r

\* The next subroutine of a Seq runs if the one before it did not fail.
ThenRecalculate(r, current_time) ==
    IF r.ok THEN recalculate_all_priorities(r.gs, current_time) ELSE r

\* Approve() at the end of a Seq whose subroutines ran; a failed Assert
\* ends the program without approval and its writes are discarded.
ThenApprove(gs, r, branch) ==
    IF r.ok THEN Outcome(TRUE, r.gs, branch) ELSE Outcome(FALSE, gs, branch)

\* Seq([update_performance_metrics(), recalculate_all_priorities(), Approve()])
UpdatePerformanceBranch(gs, txn, current_time) ==
    ThenApprove(gs,
        ThenRecalculate(update_performance_metrics(gs, txn, current_time),
                        current_time),
        "update_performance")

\* Mutant: a recalculation stamps last_updated of the first processor.
RecalculateBranchStamping(gs, txn, current_time) ==
    ThenApprove(gs,
        Ran(globalPut(recalculate_all_priorities(gs, current_time).gs,
                      processor_last_updated_key(1), TealUint(current_time))),
        "recalculate_priorities")

\* Seq([recalculate_all_priorities(), Approve()])
RecalculateBranch(gs, txn, current_time) ==
    ThenApprove(gs, recalculate_all_priorities(gs, current_time),
                "recalculate_priorities")

\* Mutant: a toggle recalculates the priorities, as an update does.
ToggleBranchRecalculating(gs, txn, current_time) ==
    ThenApprove(gs, ThenRecalculate(toggle_processor(gs, txn), current_time),
                "toggle")

\* Seq([toggle_processor(), Approve()])
ToggleBranch(gs, txn, current_time) ==
    ThenApprove(gs, toggle_processor(gs, txn), "toggle")

\* Mutant: the last branch approves.
approval_program_permissive(gs, txn, current_time) ==
    IF txn.application_id = 0
    THEN CreateBranch(gs, txn, current_time)
    ELSE IF Len(txn.application_args) = 0
    THEN Outcome(FALSE, gs, "failed")
    ELSE IF BranchCondition(txn, B_update_performance, current_time)
    THEN UpdatePerformanceBranch(gs, txn, current_time)
    ELSE IF BranchCondition(txn, B_recalculate_priorities, current_time)
    THEN RecalculateBranch(gs, txn, current_time)
    ELSE IF BranchCondition(txn, B_toggle, current_time)
    THEN ToggleBranch(gs, txn, current_time)
    ELSE IF txn.on_completion = "NoOp"
    THEN Outcome(TRUE, gs, "read")
    ELSE Outcome(TRUE, gs, "reject")

\* The conditions are tried in order.  Those of the three mutating branches
\* read Txn.application_args[0], which fails when the call has no argument.
approval_program(gs, txn, current_time) ==
    IF txn.application_id = 0
    THEN CreateBranch(gs, txn, current_time)
    ELSE IF Len(txn.application_args) = 0
    THEN Outcome(FALSE, gs, "failed")
    ELSE IF BranchCondition(txn, B_update_performance, current_time)
    THEN UpdatePerformanceBranch(gs, txn, current_time)
    ELSE IF BranchCondition(txn, B_recalculate_priorities, current_time)
    THEN RecalculateBranch(gs, txn, current_time)
    ELSE IF BranchCondition(txn, B_toggle, current_time)
    THEN ToggleBranch(gs, txn, current_time)
    ELSE IF txn.on_completion = "NoOp"
    THEN Outcome(TRUE, gs, "read")
    ELSE Outcome(FALSE, gs, "reject")

clear_state_program(gs) == Outcome(TRUE, gs, "clear")

----------------------------------------------------------------------------
(* The ledger: a transaction commits when its program approves and the     *)
(* global state it leaves fits the schema declared at creation; otherwise  *)
(* nothing of it is kept.                                                  *)

StateSchema(num_uints, num_byte_slices) ==
    [num_uints |-> num_uints, num_byte_slices |-> num_byte_slices]

FitsSchema(gs, schema) ==
    /\ Cardinality({k \in DOMAIN gs : gs[k].type = 2}) <= schema.num_uints
    /\ Cardinality({k \in DOMAIN gs : gs[k].type = 1}) <= schema.num_byte_slices

\* Mutant: the schema is not enforced.
CommittedUnchecked(out, schema) ==
    [accepted |-> out.approved, gs |-> out.gs, branch |-> out.branch]

\* The program run for a call and whether the transaction commits.
Committed(out, schema) ==
    [accepted |-> out.approved /\ FitsSchema(out.gs, schema),
     gs |-> out.gs, branch |-> out.branch]

Execute(gs, schema, txn, current_time) ==
    Committed(IF txn.on_completion = "ClearState" /\ txn.application_id # 0
              THEN clear_state_program(gs)
              ELSE approval_program(gs, txn, current_time),
              schema)

NoTxn == [application_id |-> 0, on_completion |-> "none", application_args |-> <<>>]

Record(kind, txn, accepted, branch, time) ==
    [kind |-> kind, txn |-> txn, accepted |-> accepted, branch |-> branch,
     time |-> time]

----------------------------------------------------------------------------
(* The transactions submitted to the model.  Integer arguments are the     *)
(* 8-byte big-endian encodings the callers send.                           *)

\* Accepted update_performance calls are submitted while fewer than
\* MaxUpdates have been accepted.
MaxUpdates == 2

\* Ledger times: a creation time, the last second before expiry, expiry.
Times == {1700000000, ExpiryEpoch - 1, ExpiryEpoch}

Amounts == {250}
ProcessingTimes == {100, 300}

\* global_schema of FundedContractDeployer.deploy_contract
deploy_contract_global_schema == StateSchema(20, 20)

\* The schemas a creation declares: that of deploy_funded_contract.py, one
\* that holds the 31 integers and 3 byte strings the creation call writes,
\* and one with a byte string slot too few.
Schemas == {deploy_contract_global_schema, StateSchema(31, 3), StateSchema(31, 2)}

UpdateArgs(i, a, s, t) ==
    <<B_update_performance, Itob(i), Itob(a), Itob(s), Itob(t)>>

UpdateTxns ==
    {AppCall("NoOp", UpdateArgs(i, a, s, t)) :
        i \in 1..3, a \in Amounts, s \in {0, 1}, t \in ProcessingTimes}
    \cup {AppCall("NoOp", UpdateArgs(i, 250, 1, 100)) : i \in {0, 4}}
    \cup {AppCall("NoOp", UpdateArgs(1, 250, 2, 100)),
          AppCall("NoOp", <<B_update_performance, Itob(1), Itob(250)>>)}

\* Valid toggles are submitted for the first and the last processor.
ToggleTxns ==
    {AppCall("NoOp", <<B_toggle, Itob(i), Itob(e)>>) : i \in {1, 3}, e \in {0, 1}}
    \cup {AppCall("NoOp", <<B_toggle, Itob(i), Itob(0)>>) : i \in {0, 4}}
    \cup {AppCall("NoOp", <<B_toggle, Itob(2), Itob(2)>>),
          AppCall("NoOp", <<B_toggle, Itob(2)>>)}

OtherTxns ==
    {AppCall("NoOp", <<B_recalculate_priorities>>),
     AppCall("NoOp", <<>>),
     AppCall("NoOp", <<B_get_processor_metrics, Itob(1)>>),
     AppCall("OptIn", <<>>),
     AppCall("CloseOut", <<B_recalculate_priorities>>),
     AppCall("ClearState", <<>>),
     AppCall("UpdateApplication", <<B_toggle, Itob(1), Itob(0)>>),
     AppCall("DeleteApplication", <<B_get_processor_metrics>>)}

\* The number of update_performance calls accepted so far.
AcceptedUpdates(gs) ==
    globalGetUint(gs, processor_total_transactions_key(1))
        + globalGetUint(gs, processor_total_transactions_key(2))
        + globalGetUint(gs, processor_total_transactions_key(3))

----------------------------------------------------------------------------
(* The state machine.                                                      *)

\* No run of wait_for_confirmation.
NotWaiting ==
    [pc |-> "idle", timeout |-> 0, start_round |-> 0, current_round |-> 0,
     pending_txn |-> "none", polls |-> 0, result |-> "none"]

\* No run of deploy_with_new_account.deploy_contract; balance is -1 while
\* the variable is not bound.
NotFunding ==
    [pc |-> "idle", funded |-> FALSE, attempts |-> 0, balance |-> -1,
     failed_checks |-> 0, seen_funded |-> FALSE, compiled |-> FALSE,
     submitted |-> FALSE, result |-> "none"]

Init ==
    /\ waiting = NotWaiting
    /\ funding = NotFunding
    /\ created = FALSE
    /\ global_schema = StateSchema(0, 0)
    /\ global_state = EmptyState
    /\ now = 1700000000
    /\ opted_in = FALSE
    /\ accepted_updates = [i \in 1..3 |-> 0]
    /\ pre = EmptyState
    /\ last = Record("none", NoTxn, FALSE, "none", 1700000000)

\* The history variables hold one transaction: the next one is submitted
\* after NextBlock has cleared them.
Idle == last.kind = "none"

\* The ledger moves on: Global.latest_timestamp() never decreases.
NextBlock ==
    /\ \E t \in Times : t >= now /\ now' = t
    /\ ~Idle \/ now' > now
    /\ pre' = global_state
    /\ last' = Record("none", NoTxn, FALSE, "none", now')
    /\ UNCHANGED <<created, global_schema, global_state, opted_in,
                   accepted_updates, waiting, funding>>

\* The creation transaction, with the schema it declares.
Create ==
    /\ Idle
    /\ ~created
    /\ \E schema \in Schemas :
          \E r \in {Execute(EmptyState, schema, CreateTxn, now)} :
              /\ created' = r.accepted
              \* the schema the creation transaction declared
              /\ global_schema' = schema
              /\ global_state' = IF r.accepted THEN r.gs ELSE global_state
              /\ last' = Record("create", CreateTxn, r.accepted, r.branch, now)
    \* on_complete = OnComplete.NoOp: the creator does not opt in
    /\ opted_in' = FALSE
    /\ accepted_updates' = [i \in 1..3 |-> 0]
    /\ pre' = global_state
    /\ UNCHANGED <<now, waiting, funding>>

\* The ledger runs a ClearState or CloseOut call for an account that has
\* opted in, and fails it otherwise.
LedgerChecked(r, txn, opted) ==
    [r EXCEPT !.accepted =
        @ /\ (txn.on_completion \in {"ClearState", "CloseOut"} => opted)]

\* The number of accepted runs of the update_performance branch, per index.
CountUpdate(count, r, txn) ==
    IF r.accepted /\ r.branch = "update_performance"
    THEN [count EXCEPT ![processor_index(txn)] = @ + 1]
    ELSE count

\* One application call to the created application.
Submit(txn) ==
    /\ Idle
    /\ created
    /\ \E r \in {LedgerChecked(Execute(global_state, global_schema, txn, now),
                               txn, opted_in)} :
          \* an accepted DeleteApplication call removes the application
          /\ created' = ~(r.accepted /\ txn.on_completion = "DeleteApplication")
          /\ global_state' = IF ~created' THEN EmptyState
                             ELSE IF r.accepted THEN r.gs
                             ELSE global_state
          /\ opted_in' = IF r.accepted /\ txn.on_completion = "OptIn" THEN TRUE
                         ELSE IF r.accepted
                                 /\ txn.on_completion \in {"ClearState", "CloseOut"}
                         THEN FALSE
                         ELSE opted_in
          /\ accepted_updates' = CountUpdate(accepted_updates, r, txn)
          /\ last' = Record("call", txn, r.accepted, r.branch, now)
    /\ pre' = global_state
    /\ UNCHANGED <<global_schema, now, waiting, funding>>

UpdateCall ==
    /\ AcceptedUpdates(global_state) < MaxUpdates
    /\ \E txn \in UpdateTxns : Submit(txn)

ToggleCall == \E txn \in ToggleTxns : Submit(txn)

OtherCall == \E txn \in OtherTxns : Submit(txn)

Next == NextBlock \/ Create \/ UpdateCall \/ ToggleCall \/ OtherCall

Spec == Init /\ [][Next]_vars

----------------------------------------------------------------------------
(* The score as a function of the metrics: a second specification, whose   *)
(* initial states are global states the program reaches by updates of      *)
(* processor 1 at the creation time (total, successes and average drawn    *)
(* from sets that hold the bracket bounds and the volume cap), and whose   *)
(* calls recalculate the priorities from the scores as time passes.        *)

ScoreTotals == {0, 1, 2, 1000, 1001}
ScoreAvgTimes == {49, 50, 99, 100, 120, 150, 199, 200, 499, 500}

\* The average after n updates of processor 1 is 150 for n = 0 and any
\* value from floor(150 / (n + 1)) up otherwise, by the choice of
\* processing_time_ms.
ReachableMetrics(total, successful, avg) ==
    /\ successful <= total
    /\ IF total = 0 THEN avg = 150 ELSE avg * (total + 1) >= 150

MetricsState(total, successful, avg) ==
    recalculate_all_priorities(
        globalPutAll(initialize_processors(EmptyState, 1700000000),
            << <<processor_total_transactions_key(1), TealUint(total)>>,
               <<processor_successful_transactions_key(1), TealUint(successful)>>,
               <<processor_total_amount_key(1), TealUint(250 * total)>>,
               <<processor_avg_processing_time_key(1), TealUint(avg)>>,
               <<processor_monthly_transactions_key(1), TealUint(total)>>,
               <<processor_monthly_amount_key(1), TealUint(250 * total)>> >>),
        1700000000).gs

InitScore ==
    /\ waiting = NotWaiting
    /\ funding = NotFunding
    /\ created = TRUE
    /\ global_schema = StateSchema(31, 3)
    /\ \E total \in ScoreTotals, avg \in ScoreAvgTimes :
          \E successful \in {0, 1, total} :
              /\ ReachableMetrics(total, successful, avg)
              /\ global_state = MetricsState(total, successful, avg)
    /\ now = 1700000000
    /\ opted_in = FALSE
    /\ accepted_updates =
          [i \in 1..3 |->
              globalGetUint(global_state, processor_total_transactions_key(i))]
    /\ pre = global_state
    /\ last = Record("none", NoTxn, FALSE, "none", 1700000000)

RecalculateCall == Submit(AppCall("NoOp", <<B_recalculate_priorities>>))

NextScore == NextBlock \/ RecalculateCall

SpecScore == InitScore /\ [][NextScore]_vars

----------------------------------------------------------------------------
(* FundedContractDeployer.wait_for_confirmation(txid, timeout), one step   *)
(* per statement.  The calls of the algod client are requests to a node:   *)
(* each of them returns or raises.                                         *)

\* timeout=10
DefaultTimeout == 10

\* The values of timeout, and of "last-round" in the first status.
Timeouts == {0, 1, 3, DefaultTimeout}
LastRounds == {41, 1000}

\* The function ends: with the transaction info, with the exception of its
\* last statement, or with an exception of the client that nothing catches.
WaitEnds(w, result) == [w EXCEPT !.pc = "done", !.result = result]

InitWait ==
    /\ created = FALSE
    /\ global_schema = StateSchema(0, 0)
    /\ global_state = EmptyState
    /\ now = 1700000000
    /\ opted_in = FALSE
    /\ accepted_updates = [i \in 1..3 |-> 0]
    /\ pre = EmptyState
    /\ last = Record("none", NoTxn, FALSE, "none", 1700000000)
    /\ funding = NotFunding
    /\ \E timeout \in Timeouts :
          waiting = [NotWaiting EXCEPT !.pc = "status", !.timeout = timeout]

\* start_round = self.algod_client.status()["last-round"] + 1
\* current_round = start_round
Status ==
    /\ waiting.pc = "status"
    /\ \/ \E last_round \in LastRounds :
             waiting' = [waiting EXCEPT !.pc = "while",
                                        !.start_round = last_round + 1,
                                        !.current_round = last_round + 1]
       \/ waiting' = WaitEnds(waiting, "client error")
    /\ UNCHANGED <<ledgerVars, funding>>

\* while current_round < start_round + timeout: ... raise Exception(...)
While ==
    /\ waiting.pc = "while"
    /\ waiting' = IF waiting.current_round < waiting.start_round + waiting.timeout
                  THEN [waiting EXCEPT !.pc = "try"]
                  ELSE WaitEnds(waiting, "not confirmed")
    /\ UNCHANGED <<ledgerVars, funding>>

\* pending_txn = self.algod_client.pending_transaction_info(txid), which
\* raises, or reports the transaction pending or confirmed.
Poll ==
    /\ waiting.pc = "try"
    /\ \E info \in {"raised", "pending", "confirmed"} :
          waiting' = [waiting EXCEPT !.pc = IF info = "raised" THEN "except" ELSE "if",
                                     !.pending_txn = info,
                                     !.polls = @ + 1]
    /\ UNCHANGED <<ledgerVars, funding>>

\* if pending_txn.get("confirmed-round", 0) > 0: return pending_txn
Confirmed ==
    /\ waiting.pc = "if"
    /\ waiting' = IF waiting.pending_txn = "confirmed"
                  THEN WaitEnds(waiting, "returned")
                  ELSE [waiting EXCEPT !.pc = "advance"]
    /\ UNCHANGED <<ledgerVars, funding>>

\* current_round += 1; self.algod_client.status_after_block(current_round)
\* in the except clause (followed by continue) and at the end of the body:
\* neither call is inside a try.
StatusAfterBlock ==
    /\ waiting.pc \in {"except", "advance"}
    /\ \/ waiting' = [waiting EXCEPT !.pc = "while", !.current_round = @ + 1]
       \/ waiting' = WaitEnds([waiting EXCEPT !.current_round = @ + 1],
                              "client error")
    /\ UNCHANGED <<ledgerVars, funding>>

NextWait == Status \/ While \/ Poll \/ Confirmed \/ StatusAfterBlock

SpecWait == InitWait /\ [][NextWait]_vars

----------------------------------------------------------------------------
(* deploy_with_new_account.deploy_contract: the wait for the funding of    *)
(* the fresh account, then compilation and the creation transaction.       *)

\* max_attempts = 30  # 5 minutes
max_attempts == 30

\* account_info['amount'], in microALGO.
MicroAlgos == {0, 99999, 100000, 5000000}

\* balance >= 0.1 with balance = account_info['amount'] / 1_000_000: the
\* quotient of 100000 is the float 0.1 and smaller amounts give less.
Funded(amount) == amount * 10 >= 1000000

\* return None, or the function goes on after send_transaction.
FundingEnds(f, result) == [f EXCEPT !.pc = "done", !.result = result]

InitFund ==
    /\ created = FALSE
    /\ global_schema = StateSchema(0, 0)
    /\ global_state = EmptyState
    /\ now = 1700000000
    /\ opted_in = FALSE
    /\ accepted_updates = [i \in 1..3 |-> 0]
    /\ pre = EmptyState
    /\ last = Record("none", NoTxn, FALSE, "none", 1700000000)
    /\ waiting = NotWaiting
    /\ funding = [NotFunding EXCEPT !.pc = "while"]

\* while not funded and attempts < max_attempts:
FundingWhile ==
    /\ funding.pc = "while"
    /\ funding' = [funding EXCEPT
                     !.pc = IF ~funding.funded /\ funding.attempts < max_attempts
                            THEN "try" ELSE "if"]
    /\ UNCHANGED <<ledgerVars, waiting>>

\* Mutant: a check that raises is not counted as an attempt.
AccountInfoRaisesUncounted ==
    /\ funding.pc = "try"
    /\ funding' = [funding EXCEPT !.pc = "while", !.failed_checks = @ + 1]
    /\ UNCHANGED <<ledgerVars, waiting>>

\* except Exception as e: time.sleep(10); attempts += 1
AccountInfoRaises ==
    /\ funding.pc = "try"
    /\ funding' = [funding EXCEPT !.pc = "while",
                                   !.attempts = @ + 1,
                                   !.failed_checks = @ + 1]
    /\ UNCHANGED <<ledgerVars, waiting>>

\* account_info = algod_client.account_info(address) ... if balance >= 0.1:
\* funded = True, else: time.sleep(10); attempts += 1
AccountInfo ==
    /\ funding.pc = "try"
    /\ \E amount \in MicroAlgos :
          funding' = IF Funded(amount)
                     THEN [funding EXCEPT !.pc = "while", !.balance = amount,
                                          !.funded = TRUE, !.seen_funded = TRUE]
                     ELSE [funding EXCEPT !.pc = "while", !.balance = amount,
                                          !.attempts = @ + 1,
                                          !.failed_checks = @ + 1]
    /\ UNCHANGED <<ledgerVars, waiting>>

\* if not funded: return None
FundingTimeout ==
    /\ funding.pc = "if"
    /\ funding' = IF ~funding.funded
                  THEN FundingEnds(funding, "timeout")
                  ELSE [funding EXCEPT !.pc = "compile"]
    /\ UNCHANGED <<ledgerVars, waiting>>

\* The compilation, which ends with return None when it raises.
Compile ==
    /\ funding.pc = "compile"
    /\ \/ funding' = [funding EXCEPT !.pc = "deploy", !.compiled = TRUE]
       \/ funding' = FundingEnds(funding, "compilation failed")
    /\ UNCHANGED <<ledgerVars, waiting>>

\* txid = algod_client.send_transaction(signed_txn), inside a try whose
\* except clause returns None.
SendTransaction ==
    /\ funding.pc = "deploy"
    /\ \/ funding' = FundingEnds([funding EXCEPT !.submitted = TRUE], "submitted")
       \/ funding' = FundingEnds(funding, "deployment failed")
    /\ UNCHANGED <<ledgerVars, waiting>>

NextFund ==
    \/ FundingWhile \/ AccountInfoRaises \/ AccountInfo \/ FundingTimeout
    \/ Compile \/ SendTransaction

SpecFund == InitFund /\ [][NextFund]_vars

----------------------------------------------------------------------------
(* ContractTester.read_global_state of test_contract.py, as a function of  *)
(* the global state the node reports.  Strings are sequences of code       *)
(* points.  Every key and byte string of the contract's store is ASCII,    *)
(* which UTF-8 decodes byte by byte; a byte from 128 up belongs to a       *)
(* multi-byte sequence, which the operators below do not decode.           *)

\* key_bytes.decode('utf-8') does not raise.
Utf8Decodable(b) == \A k \in 1..Len(b) : b[k] < 128

\* sub in s
Contains(s, sub) ==
    \E k \in 0..(Len(s) - Len(sub)) : SubSeq(s, k + 1, k + Len(sub)) = sub

\* s.split('_')
RECURSIVE Split(_)
Split(s) ==
    IF \A k \in 1..Len(s) : s[k] # 95
    THEN <<s>>
    ELSE LET k == CHOOSE j \in 1..Len(s) :
                      s[j] = 95 /\ \A h \in 1..(j - 1) : s[h] # 95
         IN  <<SubSeq(s, 1, k - 1)>> \o Split(SubSeq(s, k + 1, Len(s)))

\* The characters int() strips from both ends of its argument.
IsSpace(c) == c \in (9..13) \cup (28..32)

RECURSIVE Strip(_)
Strip(s) ==
    IF s = <<>> THEN s
    ELSE IF IsSpace(s[1]) THEN Strip(Tail(s))
    ELSE IF IsSpace(s[Len(s)]) THEN Strip(SubSeq(s, 1, Len(s) - 1))
    ELSE s

RECURSIVE DecimalValue(_)
DecimalValue(digits) ==
    IF digits = <<>> THEN 0
    ELSE 10 * DecimalValue(SubSeq(digits, 1, Len(digits) - 1))
            + (digits[Len(digits)] - 48)

\* int(s): an optional sign and decimal digits between optional spaces;
\* anything else raises ValueError.
PyInt(s) ==
    LET t == Strip(s)
        signed == t # <<>> /\ t[1] \in {43, 45}
        digits == IF signed THEN Tail(t) ELSE t
    IN  IF digits # <<>> /\ \A k \in 1..Len(digits) : digits[k] \in 48..57
        THEN [ok |-> TRUE,
              value |-> IF signed /\ t[1] = 45 THEN 0 - DecimalValue(digits)
                        ELSE DecimalValue(digits)]
        ELSE [ok |-> FALSE, value |-> 0]

\* The branch of the if / elif chain an entry takes.
EntryField(key_str) ==
    IF key_str = B_processor_count THEN "processor_count"
    ELSE IF Contains(key_str, B_name) THEN "name"
    ELSE IF Contains(key_str, <<95, 112, 114, 105, 111, 114, 105, 116, 121>>)
    THEN "priority"
    ELSE IF Contains(key_str, B_enabled) THEN "enabled"
    ELSE "none"

\* parts = key_str.split('_'); if len(parts) >= 3: idx = int(parts[1])
EntryParsed(key_str) ==
    /\ EntryField(key_str) \in {"name", "priority", "enabled"}
    /\ Len(Split(key_str)) >= 3

\* The handling of an entry raises: in a decode or in int(parts[1]).
EntryRaises(gs, key) ==
    \/ ~Utf8Decodable(key)
    \/ gs[key].type = 1 /\ ~Utf8Decodable(gs[key].bytes)
    \/ EntryParsed(key) /\ ~PyInt(Split(key)[2]).ok

\* bool(val)
Truthy(value) == IF value.type = 2 THEN value.uint # 0 ELSE value.bytes # <<>>

\* processors, as the pairs (idx, value) entered under each of its three
\* keys; the except clause of the method returns {} when an entry raises.
ViewOf(gs, field) ==
    IF \E key \in DOMAIN gs : EntryRaises(gs, key)
    THEN {}
    ELSE {<<PyInt(Split(key)[2]).value, gs[key]>> :
            key \in {k \in DOMAIN gs : EntryParsed(k) /\ EntryField(k) = field}}

read_global_state(gs) ==
    [name |-> ViewOf(gs, "name"),
     priority |-> ViewOf(gs, "priority"),
     enabled |-> {<<e[1], Truthy(e[2])>> : e \in ViewOf(gs, "enabled")}]

----------------------------------------------------------------------------
(* Vocabulary of the properties: the fields of processor i in a global     *)
(* state, and the last transaction.                                        *)

processor_count(gs) == globalGetUint(gs, PROCESSOR_COUNT)
Processors(gs) == 1..processor_count(gs)

name(gs, i) == globalGet(gs, processor_name_key(i))
enabled_flag(gs, i) == globalGetUint(gs, processor_enabled_key(i))
total_transactions(gs, i) == globalGetUint(gs, processor_total_transactions_key(i))
successful_transactions(gs, i) ==
    globalGetUint(gs, processor_successful_transactions_key(i))
total_amount(gs, i) == globalGetUint(gs, processor_total_amount_key(i))
avg_processing_time(gs, i) == globalGetUint(gs, processor_avg_processing_time_key(i))
first_activated(gs, i) == globalGetUint(gs, processor_first_activated_key(i))
monthly_transactions(gs, i) == globalGetUint(gs, processor_monthly_transactions_key(i))
monthly_amount(gs, i) == globalGetUint(gs, processor_monthly_amount_key(i))
last_updated(gs, i) == globalGetUint(gs, processor_last_updated_key(i))
calculated_priority(gs, i) == globalGetUint(gs, processor_calculated_priority_key(i))

\* The last transaction was a NoOp call carrying this selector and n
\* integer arguments.
LastCallOf(selector, n) ==
    /\ last.kind = "call"
    /\ last.txn.on_completion = "NoOp"
    /\ Len(last.txn.application_args) = n + 1
    /\ last.txn.application_args[1] = selector
    /\ \A k \in 1..n : ArgDecodable(last.txn, k)

\* The integer argument k of the last call.
LastArg(k) == Btoi(last.txn.application_args[k + 1])

\* The last transaction ran this branch of the program and was accepted.
LastAccepted(branch) ==
    /\ last.kind = "call"
    /\ last.accepted
    /\ last.branch = branch

\* The selectors of the three mutating branches.
MutatingSelectors == {B_update_performance, B_recalculate_priorities, B_toggle}

\* The last transaction was a call carrying one of these selectors.
LastCallWith(selectors) ==
    /\ last.kind = "call"
    /\ Len(last.txn.application_args) >= 1
    /\ last.txn.application_args[1] \in selectors

\* The keys of the calculated_priority fields.
PriorityKeys == {processor_calculated_priority_key(p) : p \in 1..3}

\* The keys update_performance_metrics writes for processor i.
UpdatedKeys(i) ==
    {processor_total_transactions_key(i), processor_successful_transactions_key(i),
     processor_total_amount_key(i), processor_avg_processing_time_key(i),
     processor_monthly_transactions_key(i), processor_monthly_amount_key(i),
     processor_last_updated_key(i)}

\* The entries of gs outside keys are those of the state before the call.
UnchangedOutside(keys) ==
    /\ DOMAIN global_state = DOMAIN pre
    /\ \A k \in DOMAIN pre \ keys : global_state[k] = pre[k]

\* The last transaction ran the recalculation and was accepted.
Recalculated ==
    LastAccepted("recalculate_priorities") \/ LastAccepted("update_performance")

\* The score of processor i in the state and at the time of the last
\* transaction.
LastScore(i) == calculate_processor_score(global_state, i, last.time)

\* The priorities of the three processors.
Priorities(gs) == [i \in 1..3 |-> calculated_priority(gs, i)]

\* The fields of a processor and the key of each.
Fields ==
    {"name", "enabled", "total_transactions", "successful_transactions",
     "total_amount", "avg_processing_time", "first_activated",
     "monthly_transactions", "monthly_amount", "last_updated",
     "calculated_priority"}

FieldKey(i, f) ==
    CASE f = "name" -> processor_name_key(i)
      [] f = "enabled" -> processor_enabled_key(i)
      [] f = "total_transactions" -> processor_total_transactions_key(i)
      [] f = "successful_transactions" -> processor_successful_transactions_key(i)
      [] f = "total_amount" -> processor_total_amount_key(i)
      [] f = "avg_processing_time" -> processor_avg_processing_time_key(i)
      [] f = "first_activated" -> processor_first_activated_key(i)
      [] f = "monthly_transactions" -> processor_monthly_transactions_key(i)
      [] f = "monthly_amount" -> processor_monthly_amount_key(i)
      [] f = "last_updated" -> processor_last_updated_key(i)
      [] f = "calculated_priority" -> processor_calculated_priority_key(i)

\* A toggle call whose index or enabled value is invalid.
InvalidToggle ==
    /\ LastCallOf(B_toggle, 2)
    /\ \/ LastArg(1) < 1
       \/ LastArg(1) > processor_count(pre)
       \/ LastArg(2) \notin {0, 1}

\* Times at which a score is looked at: the ledger time, and the times at
\* these tenures of processor i, when the ledger can still reach them.
ScoreTimes(gs, i) ==
    {now} \cup {t \in {first_activated(gs, i) + d :
                        d \in {1, 86399, 86400, 172800, 31449600, 31535999,
                               31536000, 31622399, 31622400, 63072000}} :
                  t >= now}

\* A record_performance call whose index or succeeded flag is invalid.
InvalidRecordPerformance ==
    /\ LastCallOf(B_update_performance, 4)
    /\ \/ LastArg(1) < 1
       \/ LastArg(1) > processor_count(pre)
       \/ LastArg(3) \notin {0, 1}

----------------------------------------------------------------------------
(* Properties.                                                             *)

\* C1: a record_performance call (selector "update_performance") whose index
\* is < 1 or > processor_count, or whose succeeded flag is not 0 or 1, is
\* rejected and leaves the global state as it was.
C1_InvalidRecordPerformanceRejected ==
    InvalidRecordPerformance => (~last.accepted /\ global_state = pre)

\* C2: an accepted record_performance(i, amount, succeeded, t) stores
\* avg_processing_time = floor((a*n + t) / (n + 1)) with a and n the average
\* and the total of processor i before the call; from the fresh processor 1
\* (avg 150, total 0), t = 100 gives avg 100 and total 1.
C2_RunningAverageFromPreUpdateTotal ==
    LastAccepted("update_performance") =>
        /\ avg_processing_time(global_state, LastArg(1)) =
              (avg_processing_time(pre, LastArg(1)) * total_transactions(pre, LastArg(1))
                  + LastArg(4)) \div (total_transactions(pre, LastArg(1)) + 1)
        /\ (LastArg(1) = 1 /\ total_transactions(pre, 1) = 0 /\ LastArg(4) = 100) =>
              (avg_processing_time(global_state, 1) = 100
                  /\ total_transactions(global_state, 1) = 1)

C4_SuccessfulAtMostTotal ==
    created =>
        \A i \in Processors(global_state) :
            successful_transactions(global_state, i)
                <= total_transactions(global_state, i)

\* A processor with a failure recorded after a success.
C4_Witness ==
    /\ created
    /\ LastAccepted("update_performance")
    /\ LastArg(3) = 0
    /\ successful_transactions(global_state, LastArg(1)) = 1
    /\ total_transactions(global_state, LastArg(1)) = 2

\* C5: in every state after create, calculated_priority of every processor
\* 1..processor_count is in 1..processor_count.
C5_PriorityInRange ==
    created =>
        \A i \in Processors(global_state) :
            calculated_priority(global_state, i) \in 1..processor_count(global_state)

\* After a recalculation that changed the priorities create had set.
C5_Witness ==
    /\ created
    /\ \/ LastAccepted("recalculate_priorities")
       \/ LastAccepted("update_performance")
    /\ \E i \in Processors(global_state) : calculated_priority(global_state, i) # i
    /\ \E i \in Processors(global_state) : calculated_priority(global_state, i) = 3

\* C6: the score of a processor at time now is
\* floor((success_rate*40 + volume_score*25 + speed_score*20 + tenure_score*15) / 100)
\* with success_rate = floor(successful*10000/total) if total > 0 else 9500,
\* tenure_score = min(floor((now - first_activated)/86400), 365) if
\* now > first_activated else 0, volume_score = min(monthly_transactions, 1000),
\* speed_score = 1000/800/600/400/200 for avg_processing_time
\* < 50 / < 100 / < 200 / < 500 / otherwise; total = 1, successful = 1,
\* monthly_transactions = 1, avg = 120 and tenure 0 days give 4120.
C6_ScoreFormula ==
    created =>
        \A i \in Processors(global_state) : \A t \in ScoreTimes(global_state, i) :
            LET Min(a, b) == IF a <= b THEN a ELSE b
                total == total_transactions(global_state, i)
                successful == successful_transactions(global_state, i)
                avg == avg_processing_time(global_state, i)
                activated == first_activated(global_state, i)
                rate == IF total > 0 THEN (successful * 10000) \div total ELSE 9500
                tenure == IF t > activated
                          THEN Min((t - activated) \div 86400, 365)
                          ELSE 0
                volume == Min(monthly_transactions(global_state, i), 1000)
                speed == CASE avg < 50 -> 1000
                           [] avg >= 50 /\ avg < 100 -> 800
                           [] avg >= 100 /\ avg < 200 -> 600
                           [] avg >= 200 /\ avg < 500 -> 400
                           [] avg >= 500 -> 200
            IN  /\ calculate_processor_score(global_state, i, t) =
                      (rate * 40 + volume * 25 + speed * 20 + tenure * 15) \div 100
                /\ (total = 1 /\ successful = 1 /\ avg = 120 /\ tenure = 0
                        /\ monthly_transactions(global_state, i) = 1) =>
                      calculate_processor_score(global_state, i, t) = 4120

\* The processor of the example, scored by a recalculation on its first day.
C6_Witness ==
    /\ LastAccepted("recalculate_priorities")
    /\ total_transactions(global_state, 1) = 1
    /\ successful_transactions(global_state, 1) = 1
    /\ monthly_transactions(global_state, 1) = 1
    /\ avg_processing_time(global_state, 1) = 120
    /\ now - first_activated(global_state, 1) < 86400
    /\ calculate_processor_score(global_state, 1, now) = 4120

C8_LegacyPairwiseRule ==
    LastAccepted("recalculate_priorities") =>
        \A p \in 1..3 :
            LET comparators == << <<2, 3>>, <<1, 3>>, <<1, 2>> >>
                own == calculate_processor_score(pre, p, last.time)
                first == calculate_processor_score(pre, comparators[p][1], last.time)
                second == calculate_processor_score(pre, comparators[p][2], last.time)
                priority == calculated_priority(global_state, p)
            IN  /\ priority = 1 <=> (own >= first /\ own >= second)
                /\ priority = 2 <=> (own >= first /\ own < second)
                /\ priority = 3 <=> own < first

\* A recalculation that assigns the ranks 2 and 3.
C8_Witness ==
    /\ LastAccepted("recalculate_priorities")
    /\ \E p, q \in 1..3 :
          /\ calculated_priority(global_state, p) = 2
          /\ calculated_priority(global_state, q) = 3

\* C9: a toggle(index, enabled) call with enabled not in {0, 1}, or with
\* index < 1 or index > processor_count, is rejected and leaves every field
\* of every processor unchanged.
C9_InvalidToggleRejected ==
    InvalidToggle => (~last.accepted /\ global_state = pre)

C11_EnabledIsBoolean ==
    created => \A i \in Processors(global_state) :
                   enabled_flag(global_state, i) \in {0, 1}

\* A processor has been disabled and a toggle to the value 2 was refused.
C11_Witness ==
    /\ LastCallOf(B_toggle, 2)
    /\ LastArg(2) = 2
    /\ ~last.accepted
    /\ \E i \in Processors(global_state) : enabled_flag(global_state, i) = 0

C13_MutatingCallRejectedFromExpiry ==
    (LastCallWith(MutatingSelectors) /\ last.time >= 2000000000) => ~last.accepted

\* C14: a read (a NoOp call carrying no argument) is accepted in every
\* reachable state and at every time, also after expiry_epoch, and changes
\* no entry of the store.
C14_ReadAlwaysAccepted ==
    (last.kind = "call" /\ last.txn.on_completion = "NoOp"
        /\ Len(last.txn.application_args) = 0) =>
        (last.accepted /\ global_state = pre)

\* C15: a call after creation whose first argument is a selector other than
\* update_performance, recalculate_priorities and toggle is rejected and
\* changes no state.
C15_UnknownOperationRejected ==
    (last.kind = "call" /\ Len(last.txn.application_args) >= 1
        /\ ~LastCallWith(MutatingSelectors)) =>
        (~last.accepted /\ global_state = pre)

\* C16: create at time now produces exactly this state: processor_count = 3
\* and, for i = 1, 2, 3, name = Stripe / PayPal / Square, enabled = 1,
\* total_transactions = successful_transactions = total_amount =
\* monthly_transactions = monthly_amount = 0, avg_processing_time =
\* 150 / 200 / 180, first_activated = last_updated = now and
\* calculated_priority = i.
C16_CreatedState ==
    (last.kind = "create" /\ last.accepted) =>
        /\ Cardinality(DOMAIN global_state) = 34
        /\ Cardinality({k \in DOMAIN global_state : global_state[k].type = 2}) = 31
        /\ globalGet(global_state, PROCESSOR_COUNT) = TealUint(3)
        /\ \A i \in 1..3 :
              /\ name(global_state, i) =
                    TealBytes(<< <<83, 116, 114, 105, 112, 101>>,
                                 <<80, 97, 121, 80, 97, 108>>,
                                 <<83, 113, 117, 97, 114, 101>> >>[i])
              /\ globalGet(global_state, processor_enabled_key(i)) = TealUint(1)
              /\ total_transactions(global_state, i) = 0
              /\ successful_transactions(global_state, i) = 0
              /\ total_amount(global_state, i) = 0
              /\ monthly_transactions(global_state, i) = 0
              /\ monthly_amount(global_state, i) = 0
              /\ avg_processing_time(global_state, i) = <<150, 200, 180>>[i]
              /\ first_activated(global_state, i) = last.time
              /\ last_updated(global_state, i) = last.time
              /\ calculated_priority(global_state, i) = i

\* A creation in the last second before expiry.
C16_Witness ==
    /\ last.kind = "create"
    /\ last.accepted
    /\ created
    /\ last.time = 2000000000 - 1
    /\ first_activated(global_state, 3) = 2000000000 - 1

\* C17: the deployment of the full contract declares a global state
\* capacity that holds every entry create writes (31 integers and 3 byte
\* strings, 34 entries), so that the creation succeeds.
C17_DeployedSchemaHoldsCreate ==
    (last.kind = "create" /\ global_schema = deploy_contract_global_schema) =>
        /\ global_schema.num_uints >= 31
        /\ global_schema.num_byte_slices >= 3
        /\ last.accepted

C19_RecalculateWritesPrioritiesOnly ==
    LastAccepted("recalculate_priorities") => UnchangedOutside(PriorityKeys)

\* A recalculation, later than the last update, that changed a priority.
C19_Witness ==
    /\ LastAccepted("recalculate_priorities")
    /\ last.time > last_updated(pre, 1)
    /\ \E p \in 1..3 :
          calculated_priority(global_state, p) # calculated_priority(pre, p)

\* C20: an accepted record_performance(i, ...) changes, besides
\* calculated_priority of any processor, only the six metric fields and
\* last_updated of processor i: the metrics and last_updated of the other
\* processors and name, enabled and first_activated of every processor are
\* unchanged.
C20_UpdateWritesOwnMetricsOnly ==
    LastAccepted("update_performance") =>
        UnchangedOutside(PriorityKeys \cup UpdatedKeys(LastArg(1)))

\* An update of the second processor later than its activation, after an
\* update of another one.
C20_Witness ==
    /\ LastAccepted("update_performance")
    /\ LastArg(1) = 2
    /\ last.time > first_activated(pre, 2)
    /\ last_updated(global_state, 2) = last.time
    /\ total_transactions(global_state, 2) = total_transactions(pre, 2) + 1
    /\ \E p \in {1, 3} : total_transactions(pre, p) = 1

\* C21: after create, processor_count and the name and first_activated of
\* every processor never change, and no step adds a key to the store or
\* deletes one: no record is deleted or created later.
C21_RecordSetFixed ==
    [][created =>
          /\ created'
          /\ DOMAIN global_state' = DOMAIN global_state
          /\ processor_count(global_state') = processor_count(global_state)
          /\ \A i \in 1..3 :
                /\ name(global_state', i) = name(global_state, i)
                /\ first_activated(global_state', i) =
                      first_activated(global_state, i)]_vars

\* An update in the last second before expiry of a store created at the
\* first time, after a rejected toggle of a processor that does not exist.
C21_Witness ==
    /\ LastCallOf(B_toggle, 2)
    /\ LastArg(1) = 4
    /\ ~last.accepted
    /\ last.time = 2000000000 - 1
    /\ \E i \in 1..3 :
          /\ first_activated(global_state, i) = 1700000000
          /\ last_updated(global_state, i) = 2000000000 - 1
    /\ Cardinality(DOMAIN global_state) = 34

C24_ScoreRange ==
    created =>
        \A i \in Processors(global_state) : \A t \in ScoreTimes(global_state, i) :
            calculate_processor_score(global_state, i, t) \in 0..4505

\* A processor at every cap: 1000 transactions, all successful, below
\* 50 ms, active for more than a year.
C24_Witness ==
    /\ created
    /\ successful_transactions(global_state, 1) = total_transactions(global_state, 1)
    /\ monthly_transactions(global_state, 1) >= 1000
    /\ avg_processing_time(global_state, 1) < 50
    /\ now - first_activated(global_state, 1) > 365 * 86400
    /\ calculate_processor_score(global_state, 1, now) = 4504

\* C25, as stated: whenever the three scores are pairwise distinct, a
\* recalculation gives the ranks 1, 2 and 3 to one processor each; duplicate
\* or missing ranks arise only when two scores are equal.
C25_DistinctScoresGivePermutation ==
    (Recalculated /\ LastScore(1) # LastScore(2) /\ LastScore(1) # LastScore(3)
        /\ LastScore(2) # LastScore(3)) =>
        {calculated_priority(global_state, i) : i \in 1..3} = {1, 2, 3}

\* C25, amended: whenever the three scores are pairwise distinct, a
\* recalculation gives rank 1 to the processor of the highest score and to
\* no other, and the priorities are a permutation of {1,2,3} exactly when
\* score(3) > score(1); when score(1) > score(3) the two processors
\* without rank 1 both have rank 3.
C25_DistinctScoresRanks ==
    (Recalculated /\ LastScore(1) # LastScore(2) /\ LastScore(1) # LastScore(3)
        /\ LastScore(2) # LastScore(3)) =>
        /\ \A i \in 1..3 :
              calculated_priority(global_state, i) = 1
                  <=> \A j \in 1..3 : LastScore(i) >= LastScore(j)
        /\ {calculated_priority(global_state, i) : i \in 1..3} = {1, 2, 3}
              <=> LastScore(3) > LastScore(1)
        /\ LastScore(1) > LastScore(3) =>
              \A i \in 1..3 : calculated_priority(global_state, i) \in {1, 3}

\* Distinct scores in the order 3, 2, 1 and the ranks 3, 2, 1.
C25_Witness ==
    /\ Recalculated
    /\ LastScore(3) > LastScore(2)
    /\ LastScore(2) > LastScore(1)
    /\ Priorities(global_state) = <<3, 2, 1>>

\* C26: a recalculation produces a reachable state in which two processors
\* hold the same calculated_priority: the first recalculate_priority after
\* create, at the creation time, finds processors 1 and 3 tied on score and
\* gives both rank 1.
C26_FirstRecalculationTies ==
    (LastAccepted("recalculate_priorities")
        /\ last.time = first_activated(pre, 1)
        /\ \A i \in 1..3 : total_transactions(pre, i) = 0) =>
        /\ LastScore(1) = LastScore(3)
        /\ calculated_priority(global_state, 1) = calculated_priority(global_state, 3)
        /\ Priorities(global_state) = <<1, 3, 1>>

\* The first recalculation after create, at the creation time.
C26_Witness ==
    /\ LastAccepted("recalculate_priorities")
    /\ last.time = first_activated(pre, 1)
    /\ \A i \in 1..3 : total_transactions(pre, i) = 0
    /\ Priorities(pre) = <<1, 2, 3>>
    /\ calculated_priority(global_state, 1) = calculated_priority(global_state, 3)

\* C27: right after a recalculation (recalculate_priority or an accepted
\* record_performance) every processor whose score is the maximum has
\* calculated_priority 1, and a processor with a strictly higher score than
\* another never has a larger calculated_priority than that other.
C27_RanksFollowScores ==
    Recalculated =>
        \A a \in 1..3 :
            /\ (\A b \in 1..3 : LastScore(a) >= LastScore(b)) =>
                  calculated_priority(global_state, a) = 1
            /\ \A b \in 1..3 :
                  LastScore(a) > LastScore(b) =>
                      calculated_priority(global_state, a)
                          <= calculated_priority(global_state, b)

\* Scores in the order 1, 3, 2: the two lower processors share rank 3.
C27_Witness ==
    /\ Recalculated
    /\ LastScore(1) > LastScore(3)
    /\ LastScore(3) > LastScore(2)
    /\ Priorities(global_state) = <<1, 3, 3>>

\* C28: recalculate_priority is idempotent at a fixed time: run again at
\* the same now on the store it has left, it leaves the same store.
C28_RecalculateIdempotent ==
    LastAccepted("recalculate_priorities") =>
        recalculate_all_priorities(global_state, last.time).gs = global_state

\* A recalculation at the time of the update, and of the recalculation,
\* before it: the second one in a row at this time.
C28_Witness ==
    /\ LastAccepted("recalculate_priorities")
    /\ \E i \in 1..3 : /\ total_transactions(pre, i) > 0
                        /\ last_updated(pre, i) = last.time
    /\ last.time > first_activated(pre, 1)
    /\ Priorities(pre) # <<1, 2, 3>>
    /\ global_state = pre

C30_OnlyNoOpAccepted ==
    /\ last.kind = "call" => created
    /\ (last.kind = "call" /\ last.txn.on_completion # "NoOp") =>
          (~last.accepted /\ global_state = pre)

\* A DeleteApplication call on a store with an update has been rejected.
C30_Witness ==
    /\ last.kind = "call"
    /\ last.txn.on_completion = "DeleteApplication"
    /\ ~last.accepted
    /\ created
    /\ total_transactions(global_state, 1) = 1

\* C31: for the indices 1..processor_count distinct (index, field) pairs
\* have distinct keys, none of them the processor_count key, and in every
\* reachable state each key holds a value of one fixed type: byte strings
\* under the name keys, unsigned integers under all others.
C31_KeysDistinctAndTyped ==
    /\ \A i, j \in 1..3 : \A f, g \in Fields :
          FieldKey(i, f) = FieldKey(j, g) => (i = j /\ f = g)
    /\ \A i \in 1..3 : \A f \in Fields : FieldKey(i, f) # PROCESSOR_COUNT
    /\ created =>
          /\ DOMAIN global_state =
                {PROCESSOR_COUNT} \cup
                    {FieldKey(i, f) : i \in Processors(global_state), f \in Fields}
          /\ global_state[PROCESSOR_COUNT].type = 2
          /\ \A i \in Processors(global_state) : \A f \in Fields :
                global_state[FieldKey(i, f)].type = IF f = "name" THEN 1 ELSE 2

\* A store whose integer entries have been written by an update and a
\* toggle.
C31_Witness ==
    /\ LastAccepted("toggle")
    /\ total_transactions(global_state, LastArg(1)) = 1
    /\ enabled_flag(global_state, LastArg(1)) = 0
    /\ Cardinality(DOMAIN global_state) = 34

\* C32: wait_for_confirmation(txid, timeout) polls the pending transaction
\* at most timeout times, returns the transaction info as soon as a poll
\* reports a confirmed round, and otherwise, whether the polls raise or
\* report the transaction pending, raises the not-confirmed error after
\* the last poll.
C32_WaitOutcome ==
    /\ waiting.polls <= waiting.timeout
    /\ (waiting.pc = "done" /\ waiting.polls >= 1) =>
          \/ waiting.result = "returned" /\ waiting.pending_txn = "confirmed"
          \/ /\ waiting.result = "not confirmed"
             /\ waiting.polls = waiting.timeout
             /\ waiting.pending_txn \in {"raised", "pending"}

\* C33: in deploy_with_new_account.deploy_contract the wait for funding is
\* bounded and gates the deployment: the loop ends after at most 30
\* balance checks that fail or show less than 0.1 ALGO, the function then
\* returns a failure without compiling or submitting anything, and a
\* creation transaction is submitted only after a check has seen a balance
\* of 0.1 ALGO or more.
C33_FundingGatesDeployment ==
    /\ funding.failed_checks <= 30
    /\ funding.pc = "try" => funding.failed_checks < 30
    /\ (funding.failed_checks = 30 /\ ~funding.funded /\ funding.pc = "done") =>
          (funding.result = "timeout" /\ ~funding.compiled /\ ~funding.submitted)
    /\ (funding.pc = "done" /\ ~funding.seen_funded) =>
          (funding.result = "timeout" /\ funding.failed_checks = 30)
    /\ (funding.compiled \/ funding.submitted
            \/ funding.pc \in {"compile", "deploy"}) =>
          (funding.seen_funded /\ funding.balance \in {100000, 5000000})

\* Thirty checks have failed or shown too little, the last one with
\* 0.099999 ALGO, and the function has returned without deploying.
C33_Witness ==
    /\ funding.pc = "done"
    /\ funding.result = "timeout"
    /\ funding.failed_checks = 30
    /\ funding.balance = 99999
    /\ ~funding.submitted

\* C34: for the store the create of the full contract produces,
\* read_global_state returns a view that has every index
\* 1..processor_count with the name, the priority and the enabled value
\* stored for it: the keys derived from the 8-byte big-endian index are
\* decoded back to the index.
C34_ReaderViewsEveryProcessor ==
    (last.kind = "create" /\ last.accepted) =>
        \A i \in Processors(global_state) :
            /\ <<i, name(global_state, i)>> \in read_global_state(global_state).name
            /\ <<i, TealUint(calculated_priority(global_state, i))>>
                  \in read_global_state(global_state).priority
            /\ <<i, enabled_flag(global_state, i) = 1>>
                  \in read_global_state(global_state).enabled

====
